---- MODULE Spec2Model ----
(***************************************************************************)
(* A model of rrustdoc's flag resolution: the environment flag resolver    *)
(* (src/command/environment.rs) and the command-line interface             *)
(* (src/cli.rs).                                                           *)
(*                                                                         *)
(* Text is a sequence of characters, each a one-character string.  Two     *)
(* characters have no TLA+ literal and are named: InvalidByte, a byte that *)
(* occurs in no UTF-8 encoding, and Backtick.                              *)
(***************************************************************************)
EXTENDS Naturals, Sequences, FiniteSets, TLC

VARIABLES
    host,           \* the process environment of the operating system
    ENVIRONMENT,    \* static ENVIRONMENT: LazyLock<Environment>
    RUSTFLAGS,      \* static RUSTFLAGS: LazyLock<Option<Flags>>
    RUSTDOCFLAGS,   \* static RUSTDOCFLAGS: LazyLock<Option<Flags>>
    stderr,         \* the lines written by eprintln!, oldest first
    reads,          \* history: per variable, what each dereference returned and
                    \*          what the host environment held for it at that time
    initOrder,      \* history: the variables in the order their initializers ran
    calls,          \* history: per variable, the number of parse_flags calls
    tokenized,      \* history: per variable, the number of shlex::split calls
    captures,       \* history: the number of std::env::vars_os calls
    hostAtCapture,  \* history: the host environment when vars_os first ran
    setenvs,        \* history: the number of changes made to the host environment
    argv,           \* the command line handed to Arguments::parse
    outcome         \* what Arguments::parse ended in

vars == <<host, ENVIRONMENT, RUSTFLAGS, RUSTDOCFLAGS, stderr, reads, initOrder,
          calls, tokenized, captures, hostAtCapture, setenvs, argv, outcome>>

----------------------------------------------------------------------------
(* Option<T> *)

None == [some |-> FALSE]
Some(v) == [some |-> TRUE, value |-> v]

(* Bounds *)

\* The number of dereferences of each static the model follows.
MaxReads == 2
\* The number of changes to the host environment the model follows.
MaxSetenv == 1

----------------------------------------------------------------------------
(* Characters without a literal *)

InvalidByte == "0xFF"
Backtick == "U+0060"

----------------------------------------------------------------------------
(* shlex::split, as called at environment.rs:59 *)

IsSpace(ch) == ch \in {" ", "\t", "\n"}

\* Shlex::parse_single: up to the closing quote; Err at the end of input.
RECURSIVE parse_single(_, _, _)
parse_single(s, i, word) ==
    IF i > Len(s) THEN [ok |-> FALSE, pos |-> i, word |-> word]
    ELSE IF s[i] = "'" THEN [ok |-> TRUE, pos |-> i + 1, word |-> word]
    ELSE parse_single(s, i + 1, Append(word, s[i]))

\* Shlex::parse_double: up to the closing quote, with backslash escapes.
RECURSIVE parse_double(_, _, _)
parse_double(s, i, word) ==
    IF i > Len(s) THEN [ok |-> FALSE, pos |-> i, word |-> word]
    ELSE IF s[i] = "\\" THEN
        IF i + 1 > Len(s) THEN [ok |-> FALSE, pos |-> i + 1, word |-> word]
        ELSE IF s[i + 1] \in {"$", Backtick, "\"", "\\"}
            THEN parse_double(s, i + 2, Append(word, s[i + 1]))
        ELSE IF s[i + 1] = "\n" THEN parse_double(s, i + 2, word)
        ELSE parse_double(s, i + 2, Append(Append(word, "\\"), s[i + 1]))
    ELSE IF s[i] = "\"" THEN [ok |-> TRUE, pos |-> i + 1, word |-> word]
    ELSE parse_double(s, i + 1, Append(word, s[i]))

\* Shlex::parse_word: s[i] is the character in hand.
RECURSIVE parse_word(_, _, _)
parse_word(s, i, word) ==
    LET more(r) ==
            IF ~r.ok THEN [some |-> FALSE, error |-> TRUE, pos |-> r.pos]
            ELSE IF r.pos > Len(s)
                THEN [some |-> TRUE, error |-> FALSE, pos |-> r.pos, word |-> r.word]
            ELSE parse_word(s, r.pos, r.word)
    IN  IF s[i] = "\"" THEN more(parse_double(s, i + 1, word))
        ELSE IF s[i] = "'" THEN more(parse_single(s, i + 1, word))
        ELSE IF s[i] = "\\" THEN
            IF i + 1 > Len(s) THEN [some |-> FALSE, error |-> TRUE, pos |-> i + 1]
            ELSE more([ok |-> TRUE, pos |-> i + 2,
                       word |-> IF s[i + 1] = "\n" THEN word
                                ELSE Append(word, s[i + 1])])
        ELSE IF IsSpace(s[i])
            THEN [some |-> TRUE, error |-> FALSE, pos |-> i + 1, word |-> word]
        ELSE more([ok |-> TRUE, pos |-> i + 1, word |-> Append(word, s[i])])

\* The comment branch of Shlex::next: through the next newline.
RECURSIVE skip_comment(_, _)
skip_comment(s, i) ==
    IF i > Len(s) THEN i
    ELSE IF s[i] = "\n" THEN i + 1
    ELSE skip_comment(s, i + 1)

\* Shlex::next: skip whitespace and comments, then one word.
RECURSIVE shlex_next(_, _)
shlex_next(s, i) ==
    IF i > Len(s) THEN [some |-> FALSE, error |-> FALSE, pos |-> i]
    ELSE IF IsSpace(s[i]) THEN shlex_next(s, i + 1)
    ELSE IF s[i] = "#" THEN shlex_next(s, skip_comment(s, i + 1))
    ELSE parse_word(s, i, <<>>)

\* shl.by_ref().collect()
RECURSIVE shlex_collect(_, _, _)
shlex_collect(s, i, words) ==
    LET r == shlex_next(s, i)
    IN  IF r.some THEN shlex_collect(s, r.pos, Append(words, r.word))
        ELSE [had_error |-> r.error, words |-> words]

shlex_split(s) ==
    LET r == shlex_collect(s, 1, <<>>)
    IN  IF r.had_error THEN None ELSE Some(r.words)

\* Mutant: a lossy decoding, each invalid byte replaced (as to_string_lossy does).
to_str_lossy(os) ==
    Some([i \in 1..Len(os) |-> IF os[i] = InvalidByte THEN "U+FFFD" ELSE os[i]])

\* OsStr::to_str: the text, when every byte belongs to valid UTF-8.
to_str(os) ==
    IF \E i \in 1..Len(os) : os[i] = InvalidByte THEN None ELSE Some(os)

----------------------------------------------------------------------------
(* The environment: names and the values the model draws *)

Keys == {"RUSTFLAGS", "RUSTDOCFLAGS"}

\* The confusable names each static hands to parse_flags, in list order.
Confusables(key) ==
    IF key = "RUSTFLAGS" THEN <<"RUST_FLAGS", "RUSTCFLAGS", "RUSTC_FLAGS">>
    ELSE <<"RUSTDOC_FLAGS">>

ConfusableNames == {"RUST_FLAGS", "RUSTCFLAGS", "RUSTC_FLAGS", "RUSTDOC_FLAGS"}
Names == Keys \cup ConfusableNames

Range(seq) == {seq[i] : i \in 1..Len(seq)}

\* -O -g
TextPlain == <<"-", "O", " ", "-", "g">>
\* --cfg foo --cfg 'bar baz'
TextQuoted == <<"-", "-", "c", "f", "g", " ", "f", "o", "o", " ",
                "-", "-", "c", "f", "g", " ", "'", "b", "a", "r", " ", "b", "a", "z", "'">>
\* "a b"\ c #d   (double quotes, an escaped space, a comment)
TextEscaped == <<"\"", "a", " ", "b", "\"", "\\", " ", "c", " ", "#", "d">>
\* -O 'a   (a single quote that is never closed, after a complete word)
TextUnbalanced == <<"-", "O", " ", "'", "a">>
\* -O "a
TextUnbalancedDouble == <<"-", "O", " ", "\"", "a">>
\* a\   (a backslash with nothing after it)
TextTrailingBackslash == <<"a", "\\">>
\* -O followed by a byte that is not UTF-8
TextNotUtf8 == <<"-", "O", " ", InvalidByte>>
\* an unclosed quote and a byte that is not UTF-8
TextNotUtf8Unbalanced == <<"'", InvalidByte>>
TextEmpty == <<>>
TextBlank == <<" ", "\t">>
TextG == <<"-", "g">>

WellFormedTexts == {TextEmpty, TextBlank, TextPlain, TextQuoted, TextEscaped, TextG}
MalformedTexts == {TextUnbalanced, TextUnbalancedDouble, TextTrailingBackslash}
NotUtf8Texts == {TextNotUtf8, TextNotUtf8Unbalanced}

\* What each name may hold when the process starts.
InitialValues(name) ==
    IF name = "RUSTFLAGS"
        THEN {None} \cup {Some(t) : t \in (WellFormedTexts \ {TextG})
                                            \cup MalformedTexts \cup NotUtf8Texts}
    ELSE IF name = "RUSTDOCFLAGS"
        THEN {None, Some(TextUnbalanced)}
    ELSE {None, Some(TextPlain)}

\* What a later change may leave in a name: removed, or set.
SetenvValues(name) ==
    IF name \in Keys THEN {None, Some(TextG)}
    ELSE {None, Some(TextPlain)}

----------------------------------------------------------------------------
(* The lines eprintln! writes; shown holds the displayed names in order *)

ConfusableWarning(confusable, key) ==
    [tag |-> "Tag::Warning", kind |-> "does not read", shown |-> <<confusable, key>>]
NotUtf8Warning(key) ==
    [tag |-> "Tag::Warning", kind |-> "does not contain valid UTF-8", shown |-> <<key>>]
NotWellFormedWarning(key) ==
    [tag |-> "Tag::Warning", kind |-> "is not well-formed", shown |-> <<key>>]

----------------------------------------------------------------------------
(* parse_flags *)

\* Mutant: the confusable names visited last to first.
RECURSIVE confusable_warnings_reversed(_, _, _)
confusable_warnings_reversed(key, confusables, environment) ==
    IF confusables = <<>> THEN <<>>
    ELSE confusable_warnings_reversed(key, Tail(confusables), environment)
         \o (IF environment[Head(confusables)].some
                THEN <<ConfusableWarning(Head(confusables), key)>>
                ELSE <<>>)

\* for &confusable in confusables { if environment.contains_key(confusable) {..} }
RECURSIVE confusable_warnings(_, _, _)
confusable_warnings(key, confusables, environment) ==
    IF confusables = <<>> THEN <<>>
    ELSE (IF environment[Head(confusables)].some
            THEN <<ConfusableWarning(Head(confusables), key)>>
            ELSE <<>>)
         \o confusable_warnings(key, Tail(confusables), environment)

\* Mutant: a confusable name that is set stands in for a key that is not.
environment_get_or_confusable(environment, key) ==
    IF environment[key].some THEN environment[key]
    ELSE IF \E i \in 1..Len(Confusables(key)) : environment[Confusables(key)[i]].some
        THEN environment[Confusables(key)[
                CHOOSE i \in 1..Len(Confusables(key)) :
                    /\ environment[Confusables(key)[i]].some
                    /\ \A j \in 1..(i - 1) : ~environment[Confusables(key)[j]].some]]
    ELSE None

\* Mutant: a key that is not set read as set and empty.
environment_get_or_default(environment, key) ==
    IF environment[key].some THEN environment[key] ELSE Some(<<>>)

\* environment.get(key)
environment_get(environment, key) == environment[key]

\* Mutant: the words found before the error are kept.
tokenize_partial(text) == Some(shlex_collect(text, 1, <<>>).words)

\* Mutant: the text cut at whitespace, quoting left alone (as split_whitespace does).
RECURSIVE whitespace_words(_, _, _, _)
whitespace_words(s, i, word, words) ==
    IF i > Len(s) THEN (IF word = <<>> THEN words ELSE Append(words, word))
    ELSE IF IsSpace(s[i])
        THEN whitespace_words(s, i + 1, <<>>,
                              IF word = <<>> THEN words ELSE Append(words, word))
    ELSE whitespace_words(s, i + 1, Append(word, s[i]), words)

tokenize_whitespace(text) == Some(whitespace_words(text, 1, <<>>, <<>>))

\* let flags = shlex::split(&flags);
tokenize(text) == shlex_split(text)

parse_flags(key, confusables, environment) ==
    LET warned == confusable_warnings(key, confusables, environment)
        flags == environment_get(environment, key)
    IN  IF ~flags.some
            THEN [result |-> None, stderr |-> warned, tokenized |-> 0]
        ELSE LET text == to_str(flags.value)
             IN  IF ~text.some
                    THEN [result |-> None,
                          stderr |-> Append(warned, NotUtf8Warning(key)),
                          tokenized |-> 0]
                 ELSE LET split == tokenize(text.value)
                      IN  [result |-> split,
                           stderr |-> IF split.some THEN warned
                                      ELSE Append(warned, NotWellFormedWarning(key)),
                           tokenized |-> 1]

----------------------------------------------------------------------------
(* The statics *)

\* std::env::vars_os().collect()
vars_os == host

\* Mutant: a cell that is never taken as initialized.
runs_initializer_always(cell) == TRUE

\* LazyLock::force: the initializer runs when the cell holds no value yet.
runs_initializer(cell) == ~cell.some

\* Mutant: the initializers read the host environment as it is now.
ENVIRONMENT_live == vars_os

\* &ENVIRONMENT, as each static's initializer passes it to parse_flags.
ENVIRONMENT_deref ==
    IF runs_initializer(ENVIRONMENT) THEN vars_os ELSE ENVIRONMENT.value

\* What evaluating &ENVIRONMENT leaves behind.
ENVIRONMENT_forced ==
    /\ ENVIRONMENT' = Some(ENVIRONMENT_deref)
    /\ captures' = IF runs_initializer(ENVIRONMENT) THEN captures + 1 ELSE captures
    /\ hostAtCapture' = IF captures = 0 THEN Some(host) ELSE hostAtCapture

\* A dereference of a static: cell is its value before, cell' its value after.
Deref(key, cell, cellAfter) ==
    /\ Len(reads[key]) < MaxReads
    /\ IF runs_initializer(cell)
        THEN LET r == parse_flags(key, Confusables(key), ENVIRONMENT_deref)
             IN  /\ ENVIRONMENT_forced
                 /\ cellAfter = Some(r.result)
                 /\ stderr' = stderr \o r.stderr
                 /\ calls' = [calls EXCEPT ![key] = @ + 1]
                 /\ tokenized' = [tokenized EXCEPT ![key] = @ + r.tokenized]
                 /\ initOrder' = Append(initOrder, key)
                 /\ reads' = [reads EXCEPT
                        ![key] = Append(@, [returned |-> r.result, live |-> host[key]])]
        ELSE /\ cellAfter = cell
             /\ reads' = [reads EXCEPT
                    ![key] = Append(@, [returned |-> cell.value, live |-> host[key]])]
             /\ UNCHANGED <<ENVIRONMENT, captures, hostAtCapture, stderr, initOrder,
                            calls, tokenized>>

ReadRUSTFLAGS ==
    /\ Deref("RUSTFLAGS", RUSTFLAGS, RUSTFLAGS')
    /\ UNCHANGED <<host, RUSTDOCFLAGS, setenvs, argv, outcome>>

ReadRUSTDOCFLAGS ==
    /\ Deref("RUSTDOCFLAGS", RUSTDOCFLAGS, RUSTDOCFLAGS')
    /\ UNCHANGED <<host, RUSTFLAGS, setenvs, argv, outcome>>

\* The host environment changes under the running process (set_var, remove_var).
SetEnv ==
    /\ setenvs < MaxSetenv
    /\ \E name \in Names : \E v \in SetenvValues(name) :
        /\ v # host[name]
        /\ host' = [host EXCEPT ![name] = v]
    /\ setenvs' = setenvs + 1
    /\ UNCHANGED <<ENVIRONMENT, RUSTFLAGS, RUSTDOCFLAGS, stderr, reads, initOrder,
                   calls, tokenized, captures, hostAtCapture, argv, outcome>>

----------------------------------------------------------------------------
(* Result<T, E> *)

Ok(v) == [ok |-> TRUE, value |-> v]
Err(e) == [ok |-> FALSE, error |-> e]

----------------------------------------------------------------------------
(* crate::data::Edition: the canonical editions, their strings and parser *)

Edition_elements == <<"Rust2015", "Rust2018", "Rust2021", "Rust2024">>

Edition_to_str(edition) ==
    CASE edition = "Rust2015" -> "2015"
      [] edition = "Rust2018" -> "2018"
      [] edition = "Rust2021" -> "2021"
      [] edition = "Rust2024" -> "2024"

Edition_default == "Rust2015"
LATEST_STABLE == "Rust2021"
BLEEDING_EDGE == "Rust2024"

\* <Edition as FromStr>::from_str, with the unit error.
Edition_from_str(source) ==
    IF \E e \in Range(Edition_elements) : Edition_to_str(e) = source
        THEN Ok(CHOOSE e \in Range(Edition_elements) : Edition_to_str(e) = source)
        ELSE Err(<<>>)

----------------------------------------------------------------------------
(* cli.rs: the value parsers *)

\* joinery's join_with: the pieces with the separator between neighbours.
RECURSIVE join_with(_, _)
join_with(pieces, sep) ==
    IF pieces = <<>> THEN <<>>
    ELSE IF Len(pieces) = 1 THEN Head(pieces)
    ELSE Head(pieces) \o <<sep>> \o join_with(Tail(pieces), sep)

\* A text is the sequence of the fragments written into it.
possible_values(values) ==
    <<"possible values: ">>
        \o join_with([i \in 1..Len(values) |-> <<Backtick, values[i], Backtick>>], ", ")

\* Mutant: the shorthands matched without regard to case.
parse_cli_style_caseless(source) ==
    LET parsed ==
            CASE source \in {"D", "d"} -> Ok(Edition_default)
              [] source \in {"S", "s"} -> Ok(LATEST_STABLE)
              [] source \in {"U", "u"} -> Ok(BLEEDING_EDGE)
              [] OTHER -> Edition_from_str(source)
    IN  IF parsed.ok THEN parsed
        ELSE Err(possible_values(
                    [i \in 1..Len(Edition_elements) |-> Edition_to_str(Edition_elements[i])]
                        \o <<"D", "S", "U">>))

parse_cli_style(source) ==
    LET parsed ==
            CASE source = "D" -> Ok(Edition_default)
              [] source = "S" -> Ok(LATEST_STABLE)
              [] source = "U" -> Ok(BLEEDING_EDGE)
              [] OTHER -> Edition_from_str(source)
    IN  IF parsed.ok THEN parsed
        ELSE Err(possible_values(
                    [i \in 1..Len(Edition_elements) |-> Edition_to_str(Edition_elements[i])]
                        \o <<"D", "S", "U">>))

----------------------------------------------------------------------------
(* cli.rs: the arguments clap derives, and their cross-field attributes *)

ArgIds == {"path", "open", "edition", "cross_crate", "compiletest", "query",
           "revisions", "json"}

\* #[arg(conflicts_with(..))]
conflicts_with(id) ==
    CASE id = "compiletest" -> {"cross_crate"}
      [] id = "query" -> {"cross_crate"}
      [] id = "json" -> {"open"}
      [] OTHER -> {}

\* Mutant: --query declared without requires("compiletest").
requires_without_query(id) ==
    CASE id = "revisions" -> {"compiletest"}
      [] OTHER -> {}

\* #[arg(requires(..))]
requires(id) ==
    CASE id = "query" -> {"compiletest"}
      [] id = "revisions" -> {"compiletest"}
      [] OTHER -> {}

\* A field that is neither Option, Vec nor bool is a required argument.
required(id) == id = "path"

\* Whether the command line gives the argument.
present(args, id) ==
    CASE id = "path" -> args.path.some
      [] id = "edition" -> args.edition.some
      [] id = "revisions" -> args.revisions # <<>>
      [] OTHER -> args[id]

\* clap's validation after matching: conflicts first, then what is required.
validate(args) ==
    IF \E a \in ArgIds : \E b \in conflicts_with(a) : present(args, a) /\ present(args, b)
        THEN Err("ArgumentConflict")
    ELSE IF \/ \E a \in ArgIds : required(a) /\ ~present(args, a)
            \/ \E a \in ArgIds : \E b \in requires(a) : present(args, a) /\ ~present(args, b)
        THEN Err("MissingRequiredArgument")
    ELSE Ok(<<>>)

\* Arguments::parse: the value parsers run while matching, validation after.
Arguments_parse(args) ==
    LET edition == IF args.edition.some THEN Some(parse_cli_style(args.edition.value))
                   ELSE None
    IN  IF edition.some /\ ~edition.value.ok
            THEN [result |-> Err([kind |-> "ValueValidation", message |-> edition.value.error]),
                  value_parser |-> edition]
        ELSE IF ~validate(args).ok
            THEN [result |-> Err([kind |-> validate(args).error]), value_parser |-> edition]
        ELSE [result |-> Ok([path |-> args.path.value,
                             open |-> args.open,
                             edition |-> IF edition.some THEN Some(edition.value.value)
                                         ELSE None,
                             cross_crate |-> args.cross_crate,
                             compiletest |-> args.compiletest,
                             query |-> args.query,
                             build_flags |-> [revisions |-> args.revisions,
                                              json |-> args.json]]),
              value_parser |-> edition]

\* The number of --rev occurrences the model draws.
MaxRevs == 1

\* What the model draws for -e/--edition.
EditionSources == {"D", "S", "U", "d", "s", "u", "2015", "2018", "2021", "2024",
                   "2027", "Rust2021", "DS", ""}

CommandLines ==
    [given : {TRUE},
     path : {None, Some("file.rs")},
     open : BOOLEAN,
     edition : {None} \cup {Some(e) : e \in EditionSources},
     cross_crate : BOOLEAN,
     compiletest : BOOLEAN,
     query : BOOLEAN,
     revisions : {[i \in 1..n |-> "rev"] : n \in 0..MaxRevs},
     json : BOOLEAN]

NoArgv == [given |-> FALSE]
NotParsed == [state |-> "not parsed"]

Parse ==
    /\ outcome = NotParsed
    /\ argv.given
    /\ outcome' = [state |-> "done",
                   result |-> Arguments_parse(argv).result,
                   value_parser |-> Arguments_parse(argv).value_parser]
    /\ UNCHANGED <<argv, host, ENVIRONMENT, RUSTFLAGS, RUSTDOCFLAGS, stderr, reads,
                   initOrder, calls, tokenized, captures, hostAtCapture, setenvs>>

----------------------------------------------------------------------------
(* Specifications *)

StaticsFresh ==
    /\ ENVIRONMENT = None
    /\ RUSTFLAGS = None
    /\ RUSTDOCFLAGS = None
    /\ stderr = <<>>
    /\ reads = [k \in Keys |-> <<>>]
    /\ initOrder = <<>>
    /\ calls = [k \in Keys |-> 0]
    /\ tokenized = [k \in Keys |-> 0]
    /\ captures = 0
    /\ hostAtCapture = None
    /\ setenvs = 0

\* The environment resolver, from any environment the model draws.
Init ==
    /\ \E flags \in InitialValues("RUSTFLAGS") :
       \E docflags \in InitialValues("RUSTDOCFLAGS") :
       \E c1 \in InitialValues("RUST_FLAGS") :
       \E c2 \in InitialValues("RUSTCFLAGS") :
       \E c3 \in InitialValues("RUSTC_FLAGS") :
       \E c4 \in InitialValues("RUSTDOC_FLAGS") :
            host = [n \in Names |->
                        CASE n = "RUSTFLAGS" -> flags
                          [] n = "RUSTDOCFLAGS" -> docflags
                          [] n = "RUST_FLAGS" -> c1
                          [] n = "RUSTCFLAGS" -> c2
                          [] n = "RUSTC_FLAGS" -> c3
                          [] n = "RUSTDOC_FLAGS" -> c4]
    /\ StaticsFresh
    /\ argv = NoArgv
    /\ outcome = NotParsed

Next == ReadRUSTFLAGS \/ ReadRUSTDOCFLAGS \/ SetEnv

Spec == Init /\ [][Next]_vars

\* The command-line parser, from any command line the model draws.
InitCli ==
    /\ host = [n \in Names |-> None]
    /\ StaticsFresh
    /\ argv \in CommandLines
    /\ outcome = NotParsed

NextCli == Parse

SpecCli == InitCli /\ [][NextCli]_vars

----------------------------------------------------------------------------
(* Claims about the command-line parser, under SpecCli *)

Parsed == outcome.state = "done"

\* The cross-field constraints, on the fields of a command line or of a Configuration.
CrossField(query, compiletest, cross_crate, json, open, revisions) ==
    /\ query => compiletest
    /\ ~(query /\ cross_crate)
    /\ ~(compiletest /\ cross_crate)
    /\ ~(json /\ open)
    /\ revisions # <<>> => compiletest

ExpectedEditionMessage ==
    <<"possible values: ",
      Backtick, "2015", Backtick, ", ", Backtick, "2018", Backtick, ", ",
      Backtick, "2021", Backtick, ", ", Backtick, "2024", Backtick, ", ",
      Backtick, "D", Backtick, ", ", Backtick, "S", Backtick, ", ",
      Backtick, "U", Backtick>>

CanonicalEditionNames == {"2015", "2018", "2021", "2024"}

\* C8: the value parser of --edition returns the default, latest stable and
\* bleeding-edge edition for "D", "S" and "U", the canonical parser's result for
\* every other input, and for an input that is neither a shorthand nor a canonical
\* name fails with "possible values: " and every canonical name, then D, S, U, each
\* between backticks and joined by ", ".
C8_EditionCliStyle ==
    (Parsed /\ argv.edition.some) =>
        LET source == argv.edition.value
            got == outcome.value_parser
        IN  /\ got.some
            /\ source = "D" => got.value = Ok(Edition_default)
            /\ source = "S" => got.value = Ok(LATEST_STABLE)
            /\ source = "U" => got.value = Ok(BLEEDING_EDGE)
            /\ (source \notin {"D", "S", "U"} /\ source \in CanonicalEditionNames)
                => got.value = Edition_from_str(source)
            /\ (source \notin {"D", "S", "U"} /\ source \notin CanonicalEditionNames)
                => got.value = Err(ExpectedEditionMessage)

\* A lower-case shorthand has been refused with the message.
C8_Witness ==
    /\ Parsed
    /\ argv.edition = Some("u")
    /\ outcome.value_parser = Some(Err(ExpectedEditionMessage))
    /\ ~outcome.result.ok

----------------------------------------------------------------------------
(* Claims about the environment resolver, under Spec *)

Resolved(key) == reads[key] # <<>>
Cell(key) == IF key = "RUSTFLAGS" THEN RUSTFLAGS ELSE RUSTDOCFLAGS

\* C2: parse_flags runs at most once per variable, and every dereference of a
\* variable returns what the first one returned, whatever the host environment
\* holds at the time of the later ones.
C2_Memoized ==
    \A key \in Keys :
        /\ calls[key] <= 1
        /\ Resolved(key) =>
            /\ calls[key] = 1
            /\ Cell(key).some
            /\ Cell(key).value = reads[key][1].returned
            /\ \A i \in 1..Len(reads[key]) :
                    reads[key][i].returned = reads[key][1].returned

\* RUSTFLAGS was read twice, the host environment lost it in between, and the
\* second read returned the first one's tokens.
C2_Witness ==
    /\ Len(reads["RUSTFLAGS"]) = 2
    /\ reads["RUSTFLAGS"][1].live = Some(TextPlain)
    /\ reads["RUSTFLAGS"][2].live = None
    /\ reads["RUSTFLAGS"][2].returned = Some(<<(<<"-", "O">>), (<<"-", "g">>)>>)
    /\ calls["RUSTFLAGS"] = 1

\* The variable a warning belongs to is the last name it shows.
BelongsTo(line, key) == line.shown[Len(line.shown)] = key

\* The lines of stderr that belong to the variable, in the order written.
LinesOf(key) == SelectSeq(stderr, LAMBDA line : BelongsTo(line, key))

\* The lines of the variables in this order, each with all its lines.
RECURSIVE InOrder(_)
InOrder(order) ==
    IF order = <<>> THEN <<>>
    ELSE LinesOf(Head(order)) \o InOrder(Tail(order))

\* C9: the environment is captured once, when the first of the two variables is
\* resolved, and both variables are resolved against that capture: their values
\* and their warnings are those of the host environment as it was then, whatever
\* it holds when the second variable is first resolved.
C9_OneSnapshot ==
    /\ captures <= 1
    /\ captures = 1 <=> \E key \in Keys : Resolved(key)
    /\ ENVIRONMENT.some <=> captures = 1
    /\ ENVIRONMENT.some =>
        /\ ENVIRONMENT.value = hostAtCapture.value
        /\ reads[initOrder[1]][1].live = hostAtCapture.value[initOrder[1]]
        /\ stderr = InOrder(initOrder)
        /\ \A key \in Keys : Resolved(key) =>
                LET atCapture == parse_flags(key, Confusables(key), hostAtCapture.value)
                IN  /\ Cell(key).value = atCapture.result
                    /\ LinesOf(key) = atCapture.stderr

\* RUSTDOCFLAGS was first resolved after RUSTFLAGS and after a change of the host
\* environment that would have given it another value.
C9_Witness ==
    /\ initOrder = <<"RUSTFLAGS", "RUSTDOCFLAGS">>
    /\ reads["RUSTDOCFLAGS"][1].live # hostAtCapture.value["RUSTDOCFLAGS"]
    /\ RUSTDOCFLAGS.value
        # parse_flags("RUSTDOCFLAGS", Confusables("RUSTDOCFLAGS"),
                      [hostAtCapture.value EXCEPT
                            !["RUSTDOCFLAGS"] = reads["RUSTDOCFLAGS"][1].live]).result

----------------------------------------------------------------------------
(* Claims about parse_flags, under Spec *)

\* The environment parse_flags was handed.
Snapshot == ENVIRONMENT.value

Mentions(line, name) == name \in Range(line.shown)
LinesMentioning(name) == {i \in DOMAIN stderr : Mentions(stderr[i], name)}
LinesEqual(line) == {i \in DOMAIN stderr : stderr[i] = line}
PresentConfusables(key) == {c \in Range(Confusables(key)) : Snapshot[c].some}

\* No warning about the value of the variable.
NoValueWarning(key) ==
    /\ LinesEqual(NotUtf8Warning(key)) = {}
    /\ LinesEqual(NotWellFormedWarning(key)) = {}

\* The environment with nothing but the variable itself.
Scrubbed(environment, key) ==
    [n \in Names |-> IF n = key THEN environment[n] ELSE None]

\* C3: for every confusable name the environment holds, resolution writes a warning
\* that shows that name and the correct one; the value of a confusable is never
\* tokenized and the result is the one of the environment without the confusables.
\* With the correct variable unset the result is "no flags".
C3_ConfusablesOnlyWarn ==
    \A key \in Keys : Resolved(key) =>
        /\ \A c \in PresentConfusables(key) :
                \E i \in DOMAIN stderr :
                    /\ stderr[i].tag = "Tag::Warning"
                    /\ stderr[i].shown = <<c, key>>
        /\ Cell(key).value
                = parse_flags(key, <<>>, Scrubbed(Snapshot, key)).result
        /\ ~Snapshot[key].some => (tokenized[key] = 0 /\ Cell(key).value = None)

\* RUST_FLAGS set and RUSTFLAGS unset: no flags, and the warning shows both names.
C3_Witness ==
    /\ Resolved("RUSTFLAGS")
    /\ Snapshot["RUST_FLAGS"] = Some(TextPlain)
    /\ Snapshot["RUSTFLAGS"] = None
    /\ RUSTFLAGS = Some(None)
    /\ \E i \in DOMAIN stderr : stderr[i].shown = <<"RUST_FLAGS", "RUSTFLAGS">>

Malformed(key) == Snapshot[key].some /\ Snapshot[key].value \in MalformedTexts

\* C4 as stated: a value that fails tokenization resolves to "no flags" with exactly
\* one warning that names the variable.
C4_OneWarningNamingTheVariable ==
    \A key \in Keys : (Resolved(key) /\ Malformed(key)) =>
        /\ Cell(key).value = None
        /\ Cardinality(LinesMentioning(key)) = 1

\* C4, amended: a value that fails tokenization resolves to "no flags" (no partial
\* token list) with exactly one not-well-formed warning and no other warning about
\* the value; the only other warnings that name the variable are those of the
\* confusable names present, one each.
C4_MalformedIsNoFlags ==
    \A key \in Keys : (Resolved(key) /\ Malformed(key)) =>
        /\ Cell(key).value = None
        /\ Cardinality(LinesEqual(NotWellFormedWarning(key))) = 1
        /\ LinesEqual(NotUtf8Warning(key)) = {}
        /\ Cardinality(LinesMentioning(key))
                = 1 + Cardinality(PresentConfusables(key))

\* An unclosed quote after a complete word, beside a confusable name: no flags, the
\* confusable's warning and the not-well-formed one.
C4_Witness ==
    /\ initOrder = <<"RUSTFLAGS">>
    /\ Snapshot["RUSTFLAGS"] = Some(TextUnbalanced)
    /\ PresentConfusables("RUSTFLAGS") = {"RUSTCFLAGS"}
    /\ RUSTFLAGS = Some(None)
    /\ stderr = <<ConfusableWarning("RUSTCFLAGS", "RUSTFLAGS"),
                  NotWellFormedWarning("RUSTFLAGS")>>

NotUtf8(key) == Snapshot[key].some /\ InvalidByte \in Range(Snapshot[key].value)

\* C5: a value that is not UTF-8 resolves to "no flags" with one warning that names
\* the variable; it is never tokenized, so nothing of its decodable part is returned
\* and it is never reported as not well-formed.
C5_NotUtf8IsNoFlags ==
    \A key \in Keys : (Resolved(key) /\ NotUtf8(key)) =>
        /\ Cell(key).value = None
        /\ tokenized[key] = 0
        /\ Cardinality(LinesEqual(NotUtf8Warning(key))) = 1
        /\ LinesEqual(NotWellFormedWarning(key)) = {}

\* "-O" followed by an invalid byte has resolved to no flags.
C5_Witness ==
    /\ Resolved("RUSTFLAGS")
    /\ Snapshot["RUSTFLAGS"] = Some(TextNotUtf8)
    /\ RUSTFLAGS = Some(None)
    /\ NotUtf8Warning("RUSTFLAGS") \in Range(stderr)

Blank(key) == Snapshot[key].some /\ Snapshot[key].value \in {TextEmpty, TextBlank}

\* C6 as stated: an absent variable resolves to "no flags" with no warning; an empty
\* or blank one resolves to the empty token sequence.
C6_AbsentWithoutAnyWarning ==
    \A key \in Keys : Resolved(key) =>
        /\ ~Snapshot[key].some =>
                (Cell(key).value = None /\ LinesMentioning(key) = {})
        /\ Blank(key) => Cell(key).value = Some(<<>>)

\* C6, amended: an absent variable resolves to "no flags" with no warning about its
\* value, the warnings of the confusable names present being the only ones that name
\* it; an empty or blank one resolves to the empty token sequence, which is not "no
\* flags", with no warning about its value either.
C6_AbsentIsNotEmpty ==
    \A key \in Keys : Resolved(key) =>
        /\ ~Snapshot[key].some =>
            /\ Cell(key).value = None
            /\ NoValueWarning(key)
            /\ Cardinality(LinesMentioning(key)) = Cardinality(PresentConfusables(key))
        /\ Blank(key) =>
            /\ Cell(key).value = Some(<<>>)
            /\ Cell(key).value # None
            /\ NoValueWarning(key)

\* A blank RUSTFLAGS and an absent RUSTDOCFLAGS beside RUSTDOC_FLAGS, both resolved.
C6_Witness ==
    /\ Resolved("RUSTFLAGS") /\ Resolved("RUSTDOCFLAGS")
    /\ Snapshot["RUSTFLAGS"] = Some(TextBlank)
    /\ Snapshot["RUSTDOCFLAGS"] = None
    /\ Snapshot["RUSTDOC_FLAGS"].some
    /\ RUSTFLAGS = Some(Some(<<>>))
    /\ RUSTDOCFLAGS = Some(None)
    /\ stderr # <<>>

\* The words a POSIX shell makes of each well-formed text the model draws.
ExpectedTokens(text) ==
    CASE text = TextEmpty -> <<>>
      [] text = TextBlank -> <<>>
      [] text = TextG -> <<(<<"-", "g">>)>>
      [] text = TextPlain -> <<(<<"-", "O">>), (<<"-", "g">>)>>
      [] text = TextQuoted ->
            <<(<<"-", "-", "c", "f", "g">>), (<<"f", "o", "o">>),
              (<<"-", "-", "c", "f", "g">>), (<<"b", "a", "r", " ", "b", "a", "z">>)>>
      [] text = TextEscaped -> <<(<<"a", " ", "b", " ", "c">>)>>

WellFormed(key) == Snapshot[key].some /\ Snapshot[key].value \in WellFormedTexts

\* C7: a value that tokenizes resolves to its shell words, in order and with the
\* quoting removed, with no warning about the value; --cfg foo --cfg 'bar baz'
\* gives --cfg, foo, --cfg, bar baz.
C7_ShellWords ==
    \A key \in Keys : (Resolved(key) /\ WellFormed(key)) =>
        /\ Cell(key).value = Some(ExpectedTokens(Snapshot[key].value))
        /\ tokenized[key] = 1
        /\ NoValueWarning(key)

\* The quoted example has resolved to its four words.
C7_Witness ==
    /\ Resolved("RUSTFLAGS")
    /\ Snapshot["RUSTFLAGS"] = Some(TextQuoted)
    /\ Len(RUSTFLAGS.value.value) = 4
    /\ RUSTFLAGS.value.value[4] = <<"b", "a", "r", " ", "b", "a", "z">>

----------------------------------------------------------------------------
(* The warnings over a run, under Spec *)

\* The names a warning of the variable may show.
Family(key) == {key} \cup Range(Confusables(key))

IsConfusableWarning(line) == line.kind = "does not read"

\* The place of a confusable name in the list its static hands to parse_flags.
ListIndex(key, name) ==
    CHOOSE i \in 1..Len(Confusables(key)) : Confusables(key)[i] = name

\* What stderr holds in any one state.
WarningsWellOrdered ==
    /\ \A i, j \in DOMAIN stderr : i # j => stderr[i] # stderr[j]
    /\ \A i \in DOMAIN stderr : \E key \in Keys :
            /\ BelongsTo(stderr[i], key)
            /\ Range(stderr[i].shown) \subseteq Family(key)
            /\ IsConfusableWarning(stderr[i]) => stderr[i].shown[1] \in PresentConfusables(key)
    /\ \A key \in Keys :
        /\ Cardinality(LinesEqual(NotUtf8Warning(key))
                        \cup LinesEqual(NotWellFormedWarning(key))) <= 1
        /\ ~Resolved(key) =>
                \A i \in DOMAIN stderr : Range(stderr[i].shown) \cap Family(key) = {}
        /\ \A i, j \in DOMAIN stderr :
                (i < j /\ BelongsTo(stderr[i], key) /\ BelongsTo(stderr[j], key)) =>
                    /\ IsConfusableWarning(stderr[i])
                    /\ IsConfusableWarning(stderr[j]) =>
                            ListIndex(key, stderr[i].shown[1])
                                < ListIndex(key, stderr[j].shown[1])

\* What a read of a variable may add to stderr.
ReadWarnsOnlyAtFirst ==
    \A key \in Keys : reads'[key] # reads[key] =>
        /\ Resolved(key) => stderr' = stderr
        /\ Len(stderr') >= Len(stderr)
        /\ SubSeq(stderr', 1, Len(stderr)) = stderr
        /\ \A i \in (Len(stderr) + 1)..Len(stderr') :
                /\ BelongsTo(stderr'[i], key)
                /\ Range(stderr'[i].shown) \subseteq Family(key)

\* C10: over any sequence of reads every warning is written at most once, with at
\* most one warning about each variable's value, the confusable warnings of a
\* variable in list order and before the warning about its value; a read that is
\* not the first of its variable writes nothing, a variable never read has no
\* warning, and a read writes no warning that shows a name of the other variable.
C10_WarningsOnceInOrder ==
    /\ []WarningsWellOrdered
    /\ [][ReadWarnsOnlyAtFirst]_vars

\* RUSTFLAGS was read twice and RUSTDOCFLAGS never: two confusable warnings in list
\* order, then the warning about the value, and nothing about RUSTDOC_FLAGS, set.
C10_Witness ==
    /\ Len(reads["RUSTFLAGS"]) = 2
    /\ ~Resolved("RUSTDOCFLAGS")
    /\ Snapshot["RUSTDOC_FLAGS"].some
    /\ stderr = <<ConfusableWarning("RUST_FLAGS", "RUSTFLAGS"),
                  ConfusableWarning("RUSTC_FLAGS", "RUSTFLAGS"),
                  NotWellFormedWarning("RUSTFLAGS")>>

====
